---- MODULE Spec2Model ----
(***************************************************************************)
(* A model of the Bayesian-network tools of this repository:               *)
(*   src/network_generator.py  topology generation, topological sort and   *)
(*                             renaming, synthetic CPTs, serialization     *)
(*   src/bif_converter.py      the BIF parser and its serializer           *)
(*   src/main.py               the exchange-format reader get_bayesian_net *)
(*                                                                         *)
(* Python values are modelled as follows.  A list is a sequence, a dict a  *)
(* function (its key order is the insertion order, named where it is      *)
(* used).  A word of text is a Token: a record with one field naming its   *)
(* lexical class, [id |-> s] for a word that is not a number, [int |-> n]  *)
(* for an integer numeral and [flt |-> n] for a decimal numeral, n being   *)
(* the value in units of 1/10000.  A line of the exchange format is the    *)
(* sequence of its words (what str.split() returns), the empty line <<>>.  *)
(***************************************************************************)
EXTENDS Integers, Sequences, FiniteSets, TLC

\* ------------------------------------------------------------------ bounds
MaxVars      == 4   \* --num_vars ranges over 1..MaxVars
MaxLevels    == 3   \* --levels ranges over 1..MaxLevels
MaxBranching == 3   \* --branching ranges over 1..MaxBranching
MaxArity     == 3   \* --arity ranges over 1..MaxArity
MaxSortVars  == 3   \* number of variables handed to topological_sort alone
MaxEdges     == 3   \* total length of the parent lists handed to topological_sort alone
MaxSeed      == 2   \* states of the process-wide random generator
MaxLines     == 3   \* length of the input texts made of arbitrary lines
MaxParents   == 2   \* length of the parent lists handed to the enumerators alone
MaxDomain    == 3   \* size of the domains handed to the enumerators alone

\* --fullness ranges over these quarters: 0, 0.25, 0.5, 0.75, 1 (all exact as floats)
FullnessQuarters == 0..4

VARIABLES
    pc,               \* the position of the running program
    error,            \* the exception that ended it, "" when none did
    args,             \* network_generator.main: the parsed arguments
    original_parents, \* network_generator.main: the generated topology
    sorted_orig,      \* network_generator.main: the result of topological_sort
    renamed,          \* network_generator.main: (sorted_vars, new_parents, renaming)
    cpts,             \* network_generator.main: (cpts, var_domains)
    file_contents,    \* bif_converter.main: the lines of the input file
    cleaned_lines,    \* parse_bif: the lines left after cleaning
    i,                \* parse_bif: the (0-based) index of the line looked at
    variables,        \* parse_bif: the variables found so far
    cpds,             \* parse_bif: the probability blocks found so far
    block,            \* parse_bif: the locals of the block being read
    output_lines,     \* the serialized network, as lines of words
    net,              \* main.get_bayesian_net: what the reader made of output_lines
    lex_in,           \* the enumerators alone: their arguments (parents, var_domains)
    lex_out           \* the enumerators alone: what each of the two returned

gen_vars == <<args, original_parents, sorted_orig, renamed, cpts>>
bif_vars == <<file_contents, cleaned_lines, i, variables, cpds, block>>
lex_vars == <<lex_in, lex_out>>
vars == <<pc, error, gen_vars, bif_vars, output_lines, net, lex_vars>>

\* ----------------------------------------------------------------- helpers
Min(a, b) == IF a < b THEN a ELSE b

Range(s) == {s[k] : k \in DOMAIN s}

\* f"X{i}"
var_name(n) == "X" \o ToString(n)

\* int(x[1:]) for a name made by f"X{i}"
suffix(x) == CHOOSE k \in 0..(MaxVars + MaxSortVars) : var_name(k) = x

\* [f"X{i}" for i in range(1, num_vars+1)]
var_names(num_vars) == [k \in 1..num_vars |-> var_name(k)]

\* Python's None
None == "None"

\* list.sort(key=lambda x: int(x[1:])): a stable sort by numeric suffix
RECURSIVE sort_by_suffix(_)
sort_by_suffix(s) ==
    IF s = <<>> THEN <<>>
    ELSE LET rest == sort_by_suffix(Tail(s))
             x    == Head(s)
             lo   == SelectSeq(rest, LAMBDA y : suffix(y) < suffix(x))
             hi   == SelectSeq(rest, LAMBDA y : suffix(y) >= suffix(x))
         IN  lo \o <<x>> \o hi

\* Python 3's round() of the non-negative rational num/den: ties go to the even integer
py_round(num, den) ==
    LET q == num \div den
        r == num % den
    IN  IF 2 * r < den THEN q
        ELSE IF 2 * r > den THEN q + 1
        ELSE IF q % 2 = 0 THEN q ELSE q + 1

\* ------------------------------------------------------- topology generation
generate_chain(num_vars) ==
    [v \in Range(var_names(num_vars)) |->
        IF suffix(v) = 1 THEN <<>> ELSE <<var_name(suffix(v) - 1)>>]

\* int(round(1 + fullness*(branching - 1))), fullness given in quarters
tree_n_children(fullness_q, branching) ==
    py_round(4 + fullness_q * (branching - 1), 4)

\* The for loop of generate_tree: attach up to `remaining` children to `current`.
\* st = [parents, queue, next_index, last_assigned]
RECURSIVE tree_children(_, _, _, _, _)
tree_children(st, current, level, remaining, num_vars) ==
    IF remaining <= 0 THEN st
    ELSE LET child == var_name(st.next_index + 1)   \* var_names[next_index]
             st1   == [st EXCEPT !.parents[child] = <<current>>,
                                 !.queue = Append(@, <<child, level + 1>>),
                                 !.next_index = @ + 1]
         IN  IF st1.next_index >= num_vars THEN st1
             ELSE tree_children(st1, current, level, remaining - 1, num_vars)

\* The while loop of generate_tree.
RECURSIVE tree_loop(_, _, _, _)
tree_loop(st, num_vars, levels, wanted) ==
    IF st.queue = <<>> \/ st.next_index >= num_vars THEN st
    ELSE LET current == Head(st.queue)[1]
             level   == Head(st.queue)[2]
             st0     == [st EXCEPT !.queue = Tail(@)]
         IN  IF level >= levels THEN tree_loop(st0, num_vars, levels, wanted)
             ELSE LET available  == num_vars - st0.next_index
                      n_children == Min(wanted, available)
                      st1 == IF n_children > 0
                             THEN [st0 EXCEPT !.last_assigned = current]
                             ELSE st0
                  IN  tree_loop(tree_children(st1, current, level, n_children, num_vars),
                                num_vars, levels, wanted)

\* for i in range(next_index, num_vars): attach var_names[i]; `at` is i.
RECURSIVE tree_leftover(_, _, _, _)
tree_leftover(parents, at, attach_parent, num_vars) ==
    IF at >= num_vars THEN parents
    ELSE LET child == var_name(at + 1)
             ap    == IF child = attach_parent THEN var_name(1) ELSE attach_parent
         IN  tree_leftover([parents EXCEPT ![child] = <<ap>>], at + 1, ap, num_vars)

generate_tree(num_vars, levels, branching, fullness_q) ==
    LET names == var_names(num_vars)
        st0 == [parents       |-> [v \in Range(names) |-> <<>>],
                queue         |-> << <<names[1], 1>> >>,
                next_index    |-> 1,
                last_assigned |-> None]
        st  == tree_loop(st0, num_vars, levels, tree_n_children(fullness_q, branching))
    IN  IF st.next_index < num_vars
        THEN tree_leftover(st.parents, st.next_index,
                           IF st.last_assigned # None THEN st.last_assigned ELSE names[1],
                           num_vars)
        ELSE st.parents

\* generate_inverse_tree with the arcs left as generate_tree made them
generate_inverse_tree_unreversed(num_vars, levels, branching, fullness_q) ==
    generate_tree(num_vars, levels, branching, fullness_q)

generate_inverse_tree(num_vars, levels, branching, fullness_q) ==
    LET tree_parents == generate_tree(num_vars, levels, branching, fullness_q)
        names == var_names(num_vars)   \* the key order of tree_parents
    IN  [p \in Range(names) |->
            sort_by_suffix(SelectSeq(names, LAMBDA child : p \in Range(tree_parents[child])))]

\* The pairs (i, j), 0-based, that generate_random_dag draws a random number for.
extra_edge_pairs(num_vars) ==
    {e \in (0..(num_vars - 1)) \X (0..(num_vars - 1)) : e[1] + 2 <= e[2]}

\* generate_random_dag, `chosen` being the pairs whose draw fell below extra_edge_prob
generate_random_dag(num_vars, chosen) ==
    LET names == var_names(num_vars)
    IN  [v \in Range(names) |->
            LET j     == suffix(v) - 1
                chain == IF j >= 1 THEN <<names[j]>> ELSE <<>>
                extra == SelectSeq(names, LAMBDA u : <<suffix(u) - 1, j>> \in chosen)
            IN  sort_by_suffix(chain \o extra)]

\* ------------------------------------------------- topological sort and rename
\* A function's result or the exception it raised.
Returned(v) == [ok |-> TRUE, value |-> v, error |-> ""]
Raised(e)   == [ok |-> FALSE, value |-> <<>>, error |-> e]

\* The number of times x occurs in the list s.
count(s, x) == Cardinality({k \in DOMAIN s : s[k] = x})

\* children[p] as topological_sort builds it: v is appended once for every
\* occurrence of p in var_parents[v], v taken in the order of names.
RECURSIVE sort_children(_, _, _)
sort_children(names, var_parents, p) ==
    IF names = <<>> THEN <<>>
    ELSE LET v == Head(names)
         IN  [k \in 1..count(var_parents[v], p) |-> v]
             \o sort_children(Tail(names), var_parents, p)

\* for child in children.get(v, []): st = [queue, in_degree, sorted_list]
RECURSIVE sort_release(_, _)
sort_release(st, kids) ==
    IF kids = <<>> THEN st
    ELSE LET child == Head(kids)
             deg   == st.in_degree[child] - 1
             st1   == [st EXCEPT !.in_degree[child] = deg,
                                 !.queue = IF deg = 0 THEN Append(@, child) ELSE @]
         IN  sort_release(st1, Tail(kids))

\* while queue: ...
RECURSIVE sort_loop(_, _, _)
sort_loop(st, names, var_parents) ==
    IF st.queue = <<>> THEN st
    ELSE LET q   == sort_by_suffix(st.queue)
             v   == Head(q)
             st1 == [st EXCEPT !.queue = Tail(q), !.sorted_list = Append(@, v)]
             kids == IF v \in Range(names) THEN sort_children(names, var_parents, v)
                     ELSE <<>>
         IN  sort_loop(sort_release(st1, kids), names, var_parents)

\* topological_sort without its check of the length of sorted_list
topological_sort_unchecked(names, var_parents) ==
    LET in_degree == [v \in Range(names) |-> Len(var_parents[v])]
        st0 == [queue       |-> SelectSeq(names, LAMBDA v : in_degree[v] = 0),
                in_degree   |-> in_degree,
                sorted_list |-> <<>>]
    IN  Returned(sort_loop(st0, names, var_parents).sorted_list)

topological_sort(names, var_parents) ==
    LET in_degree == [v \in Range(names) |-> Len(var_parents[v])]
        st0 == [queue       |-> SelectSeq(names, LAMBDA v : in_degree[v] = 0),
                in_degree   |-> in_degree,
                sorted_list |-> <<>>]
        st  == sort_loop(st0, names, var_parents)
    IN  IF Len(st.sorted_list) # Len(names)
        THEN Raised("ValueError(Graph is not a DAG!)")
        ELSE Returned(st.sorted_list)

\* reassign_names with the names kept in creation order, not in sorted order
reassign_names_unsorted(sorted_vars, var_parents) ==
    [new_names   |-> sorted_vars,
     new_parents |-> var_parents,
     renaming    |-> [old \in Range(sorted_vars) |-> old]]

\* reassign_names: [new_names, new_parents, renaming]
reassign_names(sorted_vars, var_parents) ==
    LET renaming == [old \in Range(sorted_vars) |->
                        var_name(CHOOSE k \in DOMAIN sorted_vars : sorted_vars[k] = old)]
    IN  [new_names   |-> [k \in DOMAIN sorted_vars |-> renaming[sorted_vars[k]]],
         new_parents |-> [new \in {renaming[old] : old \in Range(sorted_vars)} |->
                            LET old == CHOOSE o \in Range(sorted_vars) : renaming[o] = new
                            IN  [k \in DOMAIN var_parents[old] |->
                                    renaming[var_parents[old][k]]]],
         renaming    |-> renaming]

\* ------------------------------------------------------------ the enumerator
\* One step of itertools.product: [x + [y] for x in result for y in pool]
product_step(result, pool) ==
    [k \in 1..(Len(result) * Len(pool)) |->
        Append(result[((k - 1) \div Len(pool)) + 1], pool[((k - 1) % Len(pool)) + 1])]

\* itertools.product(*pools): result = [[]]; for pool in pools: result = step
RECURSIVE product_from(_, _)
product_from(result, pools) ==
    IF pools = <<>> THEN result
    ELSE product_from(product_step(result, Head(pools)), Tail(pools))

itertools_product(pools) == product_from(<< <<>> >>, pools)

\* The reverse of a list.
reversed(s) == [k \in DOMAIN s |-> s[Len(s) + 1 - k]]

\* lexicographic_assignments with the first parent varying fastest
lexicographic_assignments_first_fastest(parents, var_domains) ==
    LET rows == itertools_product(reversed([k \in DOMAIN parents |-> var_domains[parents[k]]]))
    IN  [r \in DOMAIN rows |-> reversed(rows[r])]

\* network_generator.lexicographic_assignments
lexicographic_assignments(parents, var_domains) ==
    itertools_product([k \in DOMAIN parents |-> var_domains[parents[k]]])

\* bif_converter.generate_lexicographic_order
generate_lexicographic_order(parents, var_domains) ==
    itertools_product([k \in DOMAIN parents |-> var_domains[parents[k]]])

\* ------------------------------------------------------------ synthetic CPTs
\* The k-th number random.random() returns after the generator was seeded with
\* `seed`, as a count of sevenths: the stream is a function of the seed.
random_draw(seed, k) == (((seed + k) * (seed + 2 * k + 1)) % 6) + 1

\* generate_distribution, the `used` draws before it taken: the floats x/s, kept
\* as fractions [n |-> x, d |-> s]
generate_distribution(num_outcomes, seed, used) ==
    LET raw == [k \in 1..num_outcomes |-> random_draw(seed, used + k)]
        RECURSIVE total(_)
        total(k) == IF k = 0 THEN 0 ELSE raw[k] + total(k - 1)
    IN  [k \in 1..num_outcomes |-> [n |-> raw[k], d |-> total(num_outcomes)]]

\* str(i)
py_str(n) == [int |-> n]

\* var_domains of generate_cpts
cpt_domains(names, arity) ==
    [var \in Range(names) |-> [k \in 1..arity |-> py_str(k - 1)]]

\* The table of one variable, `used` random draws taken before it.
cpt_of(parents, var_domains, arity, seed, used) ==
    IF parents = <<>> THEN generate_distribution(arity, seed, used)
    ELSE LET assignments == lexicographic_assignments(parents, var_domains)
         IN  [r \in DOMAIN assignments |->
                <<assignments[r],
                  generate_distribution(arity, seed, used + (r - 1) * arity)>>]

\* The number of rows of a table of generate_cpts.
cpt_rows(parents, cpt) == IF parents = <<>> THEN 1 ELSE Len(cpt)

\* for var in var_names: cpts[var] = ...
RECURSIVE cpts_loop(_, _, _, _, _, _, _)
cpts_loop(todo, var_parents, var_domains, arity, seed, used, done) ==
    IF todo = <<>> THEN done
    ELSE LET var     == Head(todo)
             parents == var_parents[var]
             cpt     == cpt_of(parents, var_domains, arity, seed, used)
         IN  cpts_loop(Tail(todo), var_parents, var_domains, arity, seed,
                       used + cpt_rows(parents, cpt) * arity,
                       [v \in DOMAIN done \cup {var} |->
                            IF v = var THEN cpt ELSE done[v]])

\* generate_cpts: [cpts, var_domains]
generate_cpts(names, var_parents, arity, seed) ==
    LET var_domains == cpt_domains(names, arity)
    IN  [cpts        |-> cpts_loop(names, var_parents, var_domains, arity, seed, 0, <<>>),
         var_domains |-> var_domains]

\* ------------------------------------------------------------- serialization
\* The concatenation of a list of lists.
RECURSIVE flatten(_)
flatten(ss) == IF ss = <<>> THEN <<>> ELSE Head(ss) \o flatten(Tail(ss))

\* A name as a word of text.
word(name) == [id |-> name]

\* str(len(...))
count_word(n) == [int |-> n]

\* f"{p:.4f}" of the float n/d
format_4f(p) == [flt |-> py_round(p.n * 10000, p.d)]

\* " ".join(f"{p:.4f}" for p in probs), as the words of the line
generated_row(probs) == [k \in DOMAIN probs |-> format_4f(probs[k])]

\* The lines output_network appends for one variable.
network_table_lines(var, var_parents, cpt_map) ==
    LET parents == var_parents[var]
        header  == <<word(var)>> \o [k \in DOMAIN parents |-> word(parents[k])]
    IN  << <<>>, header >>
        \o (IF var \notin DOMAIN cpt_map THEN <<>>
            ELSE IF parents = <<>> THEN <<generated_row(cpt_map[var])>>
            ELSE [r \in DOMAIN cpt_map[var] |-> generated_row(cpt_map[var][r][2])])

output_network(names, var_domains, var_parents, cpt_map) ==
    << <<count_word(Len(names))>> >>
    \o [k \in DOMAIN names |-> <<word(names[k])>> \o var_domains[names[k]]]
    \o << <<count_word(Len(names))>> >>
    \o flatten([k \in DOMAIN names |-> network_table_lines(names[k], var_parents, cpt_map)])

\* ------------------------------------------------- the exchange-format reader
\* int(line): the line must hold one word, an integer numeral.
py_int(line) ==
    IF Len(line) = 1 /\ "int" \in DOMAIN line[1] THEN Returned(line[1].int)
    ELSE Raised("ValueError")

\* float(w) succeeds on a numeral; the value in units of 1/10000.
is_number(w) == "int" \in DOMAIN w \/ "flt" \in DOMAIN w
py_float(w) == IF "int" \in DOMAIN w THEN w.int * 10000 ELSE w.flt

\* 2 ** e for e >= 0
RECURSIVE pow2(_)
pow2(e) == IF e <= 0 THEN 1 ELSE 2 * pow2(e - 1)

\* The state of get_bayesian_net: index (0-based) into lines, the dict vars as
\* its key order and the fields of its variable objects, and the exception raised.
reader_start ==
    [index |-> 0, order |-> <<>>, domain |-> <<>>, parents |-> <<>>, cpt |-> <<>>,
     error |-> ""]

reader_fail(st, e) == [st EXCEPT !.error = e]

\* for i in range(num_vars): ...
RECURSIVE read_variables(_, _, _)
read_variables(st, lines, remaining) ==
    IF remaining <= 0 \/ st.error # "" THEN st
    ELSE IF st.index >= Len(lines) THEN reader_fail(st, "IndexError")
    ELSE LET var_info == lines[st.index + 1]
         IN  IF var_info = <<>> THEN reader_fail(st, "IndexError")
             ELSE LET name == var_info[1]
                      keys == DOMAIN st.domain \cup {name}
                      st1  == [st EXCEPT
                                 !.index   = @ + 1,
                                 !.order   = IF name \in Range(@) THEN @ ELSE Append(@, name),
                                 !.domain  = [v \in keys |-> IF v = name THEN Tail(var_info) ELSE @[v]],
                                 !.parents = [v \in keys |-> IF v = name THEN <<>> ELSE @[v]],
                                 !.cpt     = [v \in keys |-> IF v = name THEN <<>> ELSE @[v]]]
                  IN  read_variables(st1, lines, remaining - 1)

\* for _ in range(2 ** (num_cpt_vars - 1)): ... ; acc is cpt
RECURSIVE read_rows(_, _, _, _)
read_rows(st, lines, remaining, acc) ==
    IF remaining <= 0 THEN [st |-> st, cpt |-> acc]
    ELSE IF st.index >= Len(lines) THEN [st |-> reader_fail(st, "IndexError"), cpt |-> acc]
    ELSE LET vals == lines[st.index + 1]
             st1  == [st EXCEPT !.index = @ + 1]
         IN  IF \E k \in DOMAIN vals : ~is_number(vals[k])
             THEN [st |-> reader_fail(st1, "ValueError"), cpt |-> acc]
             ELSE read_rows(st1, lines, remaining - 1,
                            Append(acc, [k \in DOMAIN vals |-> py_float(vals[k])]))

\* for _ in range(num_tables): ...
RECURSIVE read_tables(_, _, _)
read_tables(st, lines, remaining) ==
    IF remaining <= 0 \/ st.error # "" THEN st
    ELSE IF st.index + 1 >= Len(lines) THEN reader_fail(st, "IndexError")
    ELSE LET cpt_vars     == lines[st.index + 2]   \* index += 1 skips the blank line
             num_cpt_vars == Len(cpt_vars)
             st1          == [st EXCEPT !.index = @ + 2]
         IN  IF \E k \in DOMAIN cpt_vars : cpt_vars[k] \notin DOMAIN st.domain
             THEN reader_fail(st1, "KeyError")
             ELSE IF num_cpt_vars > 1 /\ st.parents[cpt_vars[1]] = None
             THEN reader_fail(st1, "AttributeError")
             ELSE IF num_cpt_vars = 0 THEN reader_fail(st1, "TypeError")
             ELSE LET \* addParents: self.parents = self.parents.extend(...) is None
                      st2 == IF num_cpt_vars > 1
                             THEN [st1 EXCEPT !.parents[cpt_vars[1]] = None]
                             ELSE st1
                      got == read_rows(st2, lines, pow2(num_cpt_vars - 1), <<>>)
                  IN  IF got.st.error # "" THEN got.st
                      ELSE read_tables([got.st EXCEPT !.cpt[cpt_vars[1]] = got.cpt],
                                       lines, remaining - 1)

get_bayesian_net(lines) ==
    IF lines = <<>> THEN reader_fail(reader_start, "IndexError")
    ELSE LET num_vars == py_int(lines[1])
         IN  IF ~num_vars.ok THEN reader_fail(reader_start, num_vars.error)
             ELSE LET st1 == read_variables([reader_start EXCEPT !.index = 1],
                                            lines, num_vars.value)
                  IN  IF st1.error # "" THEN st1
                      ELSE IF st1.index >= Len(lines) THEN reader_fail(st1, "IndexError")
                      ELSE LET num_tables == py_int(lines[st1.index + 1])
                           IN  IF ~num_tables.ok THEN reader_fail(st1, num_tables.error)
                               ELSE read_tables([st1 EXCEPT !.index = @ + 1],
                                                lines, num_tables.value)

\* ------------------------------------------------------------ the BIF text
(***************************************************************************)
(* A line of the input file is modelled by what parse_bif's tests make of  *)
(* it once it is stripped of its comment: its kind, and the pieces the     *)
(* regular expressions capture.  Each kind stands for lines of one form:   *)
(*   blank                 an empty or comment-only line                   *)
(*   network               network <name> {                                *)
(*   variable              variable <name> {                               *)
(*   variable_malformed    variable {          (the header regex fails)    *)
(*   domain                type discrete [ n ] { <item>, <item> };         *)
(*   close                 }                                               *)
(*   probability           probability ( <name> [| <item>, <item>] ) {     *)
(*   probability_malformed probability <name> { (the header regex fails)   *)
(*   table                 table <value>, <value>;                         *)
(*   table_malformed       table <value>       (no semicolon: no match)    *)
(*   row                   ( <item>, <item> ) <value>, <value>;            *)
(*   other                 property <text>;                                *)
(* items are names or domain labels (strings), values are words.           *)
(***************************************************************************)
Line(kind, name, items, values) ==
    [kind |-> kind, name |-> name, items |-> items, values |-> values]

BlankLine                  == Line("blank", "", <<>>, <<>>)
NetworkLine                == Line("network", "", <<>>, <<>>)
VariableHeader(name)       == Line("variable", name, <<>>, <<>>)
MalformedVariable          == Line("variable_malformed", "", <<>>, <<>>)
DomainLine(labels)         == Line("domain", "", labels, <<>>)
CloseLine                  == Line("close", "", <<>>, <<>>)
ProbabilityHeader(c, ps)   == Line("probability", c, ps, <<>>)
MalformedProbability       == Line("probability_malformed", "", <<>>, <<>>)
TableLine(values)          == Line("table", "", <<>>, values)
MalformedTable             == Line("table_malformed", "", <<>>, <<>>)
RowLine(assignment, values) == Line("row", "", assignment, values)
OtherLine                  == Line("other", "", <<>>, <<>>)

\* line.startswith(keyword)
starts_with(line, keyword) ==
    CASE keyword = "network"     -> line.kind = "network"
      [] keyword = "variable"    -> line.kind \in {"variable", "variable_malformed"}
      [] keyword = "probability" -> line.kind \in {"probability", "probability_malformed"}
      [] keyword = "table"       -> line.kind \in {"table", "table_malformed"}

\* re.match(r"variable\s+(\w+)\s*{", line)
match_variable(line) == line.kind = "variable"

\* re.search(r"{\s*(.*?)\s*}", line): an opening brace with a closing one after it
search_braces(line) == line.kind = "domain"

\* re.match(r"probability\s*\(\s*(\w+)(\s*\|\s*(.*?))?\s*\)\s*{", line)
match_probability(line) == line.kind = "probability"

\* re.search(r"table\s+(.*?);", line_inside)
search_table(line) == line.kind = "table"

\* re.match(r"\(\s*(.*?)\s*\)\s+(.*?);", line_inside)
match_entry(line) == line.kind = "row"

\* [float(p.strip()) for p in probs_str.split(",")]: raises on the first
\* piece that is no number
floats_of(values) ==
    IF \E k \in DOMAIN values : ~is_number(values[k]) THEN Raised("ValueError")
    ELSE Returned([k \in DOMAIN values |-> py_float(values[k])])

\* The lines 34..39 of parse_bif: comments stripped, empty lines dropped.
clean_lines(lines) == SelectSeq(lines, LAMBDA l : l.kind # "blank")

\* An entry of a cpd's table: a float (from a table line) or
\* (assignment, probs) (from a row line).
FloatEntry(v)           == [float |-> v]
RowEntry(assign, probs) == [assignment |-> assign, probs |-> probs]
is_float_entry(e)       == "float" \in DOMAIN e

\* ------------------------------------------------------ bif_converter's output
\* f"{p}" of a float: its repr, a decimal numeral
format_repr(v) == [flt |-> v]

\* f"{p}" of an entry of an unconditional table; a tuple prints as text that
\* is no number, taken here as one word
format_entry(e) == IF is_float_entry(e) THEN format_repr(e.float) ELSE [id |-> "(...)"]

\* var_domains = {name: domain for (name, domain) in variables}
bif_var_domains(vs) ==
    [name \in {vs[k][1] : k \in DOMAIN vs} |->
        vs[CHOOSE k \in DOMAIN vs :
              vs[k][1] = name /\ \A m \in DOMAIN vs : vs[m][1] = name => m <= k][2]]

\* table_map with the first (assignment, probs) of each assignment kept
table_map_get_first(table, assignment) ==
    LET hits == {k \in DOMAIN table : table[k].assignment = assignment}
    IN  IF hits = {} THEN <<>>
        ELSE table[CHOOSE k \in hits : \A m \in hits : k <= m].probs

\* table_map: the last (assignment, probs) of each assignment
table_map_get(table, assignment) ==
    LET hits == {k \in DOMAIN table : table[k].assignment = assignment}
    IN  IF hits = {} THEN <<>>
        ELSE table[CHOOSE k \in hits : \A m \in hits : m <= k].probs

\* bif_row_lines with an assignment that has no entry skipped, not printed as
\* an empty line
bif_row_lines_skip_missing(cpd, var_domains) ==
    IF cpd.parents = <<>>
    THEN Returned(<< [k \in DOMAIN cpd.table |-> format_entry(cpd.table[k])] >>)
    ELSE IF \E k \in DOMAIN cpd.table : is_float_entry(cpd.table[k])
    THEN Raised("TypeError")
    ELSE IF \E k \in DOMAIN cpd.parents : cpd.parents[k] \notin DOMAIN var_domains
    THEN Raised("KeyError")
    ELSE LET lex_order == SelectSeq(generate_lexicographic_order(cpd.parents, var_domains),
                                    LAMBDA a : \E k \in DOMAIN cpd.table :
                                                  cpd.table[k].assignment = a)
         IN  Returned([r \in DOMAIN lex_order |->
                 LET probs == table_map_get(cpd.table, lex_order[r])
                 IN  [k \in DOMAIN probs |-> format_repr(probs[k])]])

\* The row lines convert_to_target_format appends for one cpd.
bif_row_lines(cpd, var_domains) ==
    IF cpd.parents = <<>>
    THEN Returned(<< [k \in DOMAIN cpd.table |-> format_entry(cpd.table[k])] >>)
    ELSE IF \E k \in DOMAIN cpd.table : is_float_entry(cpd.table[k])
    THEN Raised("TypeError")
    ELSE IF \E k \in DOMAIN cpd.parents : cpd.parents[k] \notin DOMAIN var_domains
    THEN Raised("KeyError")
    ELSE LET lex_order == generate_lexicographic_order(cpd.parents, var_domains)
         IN  Returned([r \in DOMAIN lex_order |->
                 LET probs == table_map_get(cpd.table, lex_order[r])
                 IN  [k \in DOMAIN probs |-> format_repr(probs[k])]])

\* The lines convert_to_target_format appends for one cpd: blank, header, rows.
bif_table_lines(cpd, var_domains) ==
    LET header == <<word(cpd.child)>> \o [k \in DOMAIN cpd.parents |-> word(cpd.parents[k])]
        rows   == bif_row_lines(cpd, var_domains)
    IN  IF rows.ok THEN Returned(<< <<>>, header >> \o rows.value) ELSE rows

\* convert_to_target_format with the tables taken in the order of the
\* variables' declarations, not in the order of cpds
convert_to_target_format_by_variable(vs, cs) ==
    LET var_domains == bif_var_domains(vs)
        declared == {vs[k][1] : k \in DOMAIN vs}
        cs2    == flatten([k \in DOMAIN vs |-> SelectSeq(cs, LAMBDA c : c.child = vs[k][1])])
                  \o SelectSeq(cs, LAMBDA c : c.child \notin declared)
        tables == [k \in DOMAIN cs2 |-> bif_table_lines(cs2[k], var_domains)]
    IN  IF \E k \in DOMAIN cs2 : ~tables[k].ok
        THEN Raised("Error")
        ELSE Returned(
                << <<count_word(Len(vs))>> >>
                \o [k \in DOMAIN vs |->
                       <<word(vs[k][1])>> \o [m \in DOMAIN vs[k][2] |-> word(vs[k][2][m])]]
                \o << <<count_word(Len(cs2))>> >>
                \o flatten([k \in DOMAIN cs2 |-> tables[k].value]))

convert_to_target_format(vs, cs) ==
    LET var_domains == bif_var_domains(vs)
        tables == [k \in DOMAIN cs |-> bif_table_lines(cs[k], var_domains)]
    IN  IF \E k \in DOMAIN cs : ~tables[k].ok
        THEN tables[CHOOSE k \in DOMAIN cs :
                        ~tables[k].ok /\ \A m \in DOMAIN cs : ~tables[m].ok => k <= m]
        ELSE Returned(
                << <<count_word(Len(vs))>> >>
                \o [k \in DOMAIN vs |->
                       <<word(vs[k][1])>> \o [m \in DOMAIN vs[k][2] |-> word(vs[k][2][m])]]
                \o << <<count_word(Len(cs))>> >>
                \o flatten([k \in DOMAIN cs |-> tables[k].value]))

\* ------------------------------------------- network_generator.main, step by step
\* argparse's defaults for --levels, --branching and --fullness (in quarters)
DefaultLevels    == 3
DefaultBranching == 2
DefaultFullness  == 4

TreeMorphologies == {"full_tree", "inverse_tree"}

\* The arguments main may be run with.  A morphology that does not read
\* --levels, --branching and --fullness is run with their defaults.
GeneratorArgs ==
    [morphology : TreeMorphologies, num_vars : 1..MaxVars, arity : 1..MaxArity,
     levels : 1..MaxLevels, branching : 1..MaxBranching, fullness : FullnessQuarters]
    \cup
    [morphology : {"chain", "random_dag"}, num_vars : 1..MaxVars, arity : 1..MaxArity,
     levels : {DefaultLevels}, branching : {DefaultBranching}, fullness : {DefaultFullness}]

NoArgs == [morphology |-> "", num_vars |-> 0, arity |-> 0,
           levels |-> DefaultLevels, branching |-> DefaultBranching,
           fullness |-> DefaultFullness]

NoNames == [new_names |-> <<>>, new_parents |-> <<>>, renaming |-> <<>>]
NoCpts  == [cpts |-> <<>>, var_domains |-> <<>>]

\* generate_network, `chosen` being the random choices of generate_random_dag
generate_network(a, chosen) ==
    CASE a.morphology = "chain"        -> generate_chain(a.num_vars)
      [] a.morphology = "full_tree"    ->
            generate_tree(a.num_vars, a.levels, a.branching, a.fullness)
      [] a.morphology = "inverse_tree" ->
            generate_inverse_tree(a.num_vars, a.levels, a.branching, a.fullness)
      [] a.morphology = "random_dag"   -> generate_random_dag(a.num_vars, chosen)

NoLexIn  == [parents |-> <<>>, var_domains |-> <<>>]
NoLexOut == [generator |-> <<>>, converter |-> <<>>]
NoLex == lex_in = NoLexIn /\ lex_out = NoLexOut

NoBlock == [name |-> "", items |-> <<>>, table |-> <<>>]

\* The variables of bif_converter, in a run of network_generator.
NoBif ==
    /\ file_contents = <<>>
    /\ cleaned_lines = <<>>
    /\ i = 0
    /\ variables = <<>>
    /\ cpds = <<>>
    /\ block = NoBlock

InitGen ==
    /\ pc = "start"
    /\ error = ""
    /\ args \in GeneratorArgs
    /\ original_parents = <<>>
    /\ sorted_orig = <<>>
    /\ renamed = NoNames
    /\ cpts = NoCpts
    /\ NoBif
    /\ output_lines = <<>>
    /\ net = reader_start
    /\ NoLex

\* original_parents = generate_network(args)
GenerateNetwork ==
    /\ pc = "start"
    /\ \E chosen \in SUBSET extra_edge_pairs(args.num_vars) :
          /\ (args.morphology # "random_dag" => chosen = {})
          /\ original_parents' = generate_network(args, chosen)
    /\ pc' = "generated"
    /\ UNCHANGED <<lex_vars, error, args, sorted_orig, renamed, cpts, bif_vars, output_lines, net>>

\* sorted_orig = topological_sort(original_vars, var_parents_copy)
TopologicalSort ==
    /\ pc = "generated"
    /\ LET got == topological_sort(var_names(args.num_vars), original_parents)
       IN  /\ sorted_orig' = got.value
           /\ error' = IF got.ok THEN "" ELSE "topological_sort: " \o got.error
           /\ pc' = IF got.ok THEN "sorted" ELSE "raised"
    /\ UNCHANGED <<lex_vars, args, original_parents, renamed, cpts, bif_vars, output_lines, net>>

\* sorted_vars, new_parents, renaming = reassign_names(sorted_orig, original_parents)
ReassignNames ==
    /\ pc = "sorted"
    /\ renamed' = reassign_names(sorted_orig, original_parents)
    /\ pc' = "renamed"
    /\ UNCHANGED <<lex_vars, error, args, original_parents, sorted_orig, cpts, bif_vars,
                   output_lines, net>>

\* cpts, var_domains = generate_cpts(sorted_vars, new_parents, args.arity)
GenerateCpts ==
    /\ pc = "renamed"
    /\ \E seed \in 1..MaxSeed :
          cpts' = generate_cpts(renamed.new_names, renamed.new_parents, args.arity, seed)
    /\ pc' = "tables"
    /\ UNCHANGED <<lex_vars, error, args, original_parents, sorted_orig, renamed, bif_vars,
                   output_lines, net>>

\* output = output_network(sorted_vars, var_domains, new_parents, cpts)
OutputNetwork ==
    /\ pc = "tables"
    /\ output_lines' = output_network(renamed.new_names, cpts.var_domains,
                                      renamed.new_parents, cpts.cpts)
    /\ pc' = "printed"
    /\ UNCHANGED <<lex_vars, error, gen_vars, bif_vars, net>>

\* main.get_bayesian_net reads the printed lines
GetBayesianNet ==
    /\ pc = "printed"
    /\ net' = get_bayesian_net(output_lines)
    /\ pc' = "read"
    /\ UNCHANGED <<lex_vars, error, gen_vars, bif_vars, output_lines>>

\* -------------------------------------------------- bif_converter.main, step by step
\* A probability value written with four decimals, and a word that is no number.
P(n) == [flt |-> n]
NotANumber == [id |-> "abc"]

\* The lines that texts of any shape are made of.
LineAlphabet ==
    { BlankLine, NetworkLine, VariableHeader("A"), MalformedVariable,
      DomainLine(<<"a", "b">>), DomainLine(<<"c">>), CloseLine,
      ProbabilityHeader("A", <<>>), ProbabilityHeader("B", <<"A">>), MalformedProbability,
      TableLine(<<P(4000), P(6000)>>), TableLine(<<P(4000), NotANumber>>), MalformedTable,
      RowLine(<<"a">>, <<P(1000), P(9000)>>), RowLine(<<"b">>, <<NotANumber>>),
      OtherLine }

\* Every text of at most MaxLines lines.
FreeTexts == UNION {[1..n -> LineAlphabet] : n \in 0..MaxLines}

\* Whole networks: A, B with parent A, C with parents A and B.
VariableBlock(name, domain_lines) ==
    <<VariableHeader(name)>> \o domain_lines \o <<CloseLine>>

ProbabilityBlock(child, parents, body) ==
    <<ProbabilityHeader(child, parents)>> \o body \o <<CloseLine>>

ADomainLines ==
    { <<DomainLine(<<"a", "b">>)>>,
      <<DomainLine(<<"a", "b">>), DomainLine(<<"c">>)>>,
      <<DomainLine(<<"c">>), DomainLine(<<"a", "b">>)>>,
      <<OtherLine>> }

RowA == RowLine(<<"a">>, <<P(1000), P(2000), P(7000)>>)
RowB == RowLine(<<"b">>, <<P(3000), P(3000), P(4000)>>)
RowA2 == RowLine(<<"a">>, <<P(2000), P(2000), P(6000)>>)
BRows == { <<RowA, RowB>>, <<RowB, RowA>>, <<RowB>>, <<RowA, RowB, RowA2>> }

CRowsInOrder ==
    [r \in 1..6 |->
        RowLine(<< <<"a", "b">>[((r - 1) \div 3) + 1], <<"x", "y", "z">>[((r - 1) % 3) + 1] >>,
                <<P(r * 100), P(10000 - r * 100)>>)]
CRows == { CRowsInOrder, [r \in 1..6 |-> CRowsInOrder[7 - r]] }

BlockOrders == { <<1, 2, 3>>, <<2, 1, 3>>, <<3, 2, 1>> }

NetworkTexts ==
    { <<NetworkLine, CloseLine>>
      \o VariableBlock("A", da)
      \o VariableBlock("B", <<DomainLine(<<"x", "y", "z">>)>>)
      \o VariableBlock("C", <<DomainLine(<<"t", "f">>)>>)
      \o flatten([k \in 1..3 |->
            << ProbabilityBlock("A", <<>>, <<TableLine(<<P(4000), P(6000)>>)>>),
               ProbabilityBlock("B", <<"A">>, rb),
               ProbabilityBlock("C", <<"A", "B">>, rc) >>[order[k]]])
      : da \in ADomainLines, rb \in BRows, rc \in CRows, order \in BlockOrders }

NoGen ==
    /\ args = NoArgs
    /\ original_parents = <<>>
    /\ sorted_orig = <<>>
    /\ renamed = NoNames
    /\ cpts = NoCpts

InitBif ==
    /\ pc = "parse"
    /\ error = ""
    /\ NoGen
    /\ file_contents \in FreeTexts \cup NetworkTexts
    /\ cleaned_lines = <<>>
    /\ i = 0
    /\ variables = <<>>
    /\ cpds = <<>>
    /\ block = NoBlock
    /\ output_lines = <<>>
    /\ net = reader_start
    /\ NoLex

\* parse_bif, lines 30..41: the locals are set and the lines cleaned
CleanLines ==
    /\ pc = "parse"
    /\ cleaned_lines' = clean_lines(file_contents)
    /\ i' = 0
    /\ variables' = <<>>
    /\ cpds' = <<>>
    /\ pc' = "outer"
    /\ UNCHANGED <<lex_vars, error, gen_vars, file_contents, block, output_lines, net>>

\* The line cleaned_lines[i].
line_at(k) == cleaned_lines[k + 1]

\* An iteration of the outer loop that only steps over the line: a network
\* line, a malformed header, or a line with no keyword.
SkipLine ==
    /\ pc = "outer"
    /\ i < Len(cleaned_lines)
    /\ \/ starts_with(line_at(i), "network")
       \/ /\ ~starts_with(line_at(i), "network")
          /\ starts_with(line_at(i), "variable")
          /\ ~match_variable(line_at(i))
       \/ /\ ~starts_with(line_at(i), "network")
          /\ ~starts_with(line_at(i), "variable")
          /\ starts_with(line_at(i), "probability")
          /\ ~match_probability(line_at(i))
       \/ /\ ~starts_with(line_at(i), "network")
          /\ ~starts_with(line_at(i), "variable")
          /\ ~starts_with(line_at(i), "probability")
    /\ i' = i + 1
    /\ UNCHANGED <<lex_vars, pc, error, gen_vars, file_contents, cleaned_lines, variables, cpds,
                   block, output_lines, net>>

\* A variable header: var_name and domain are set, the block is entered.
EnterVariable ==
    /\ pc = "outer"
    /\ i < Len(cleaned_lines)
    /\ ~starts_with(line_at(i), "network")
    /\ starts_with(line_at(i), "variable")
    /\ match_variable(line_at(i))
    /\ block' = [name |-> line_at(i).name, items |-> <<>>, table |-> <<>>]
    /\ i' = i + 1
    /\ pc' = "variable"
    /\ UNCHANGED <<lex_vars, error, gen_vars, file_contents, cleaned_lines, variables, cpds,
                   output_lines, net>>

\* VariableLine with the domain kept once a line has supplied it
VariableLine_keep_first ==
    /\ pc = "variable"
    /\ i < Len(cleaned_lines)
    /\ line_at(i).kind # "close"
    /\ block' = IF search_braces(line_at(i)) /\ block.items = <<>>
                THEN [block EXCEPT !.items = line_at(i).items]
                ELSE block
    /\ i' = i + 1
    /\ UNCHANGED <<lex_vars, pc, error, gen_vars, file_contents, cleaned_lines, variables,
                   cpds, output_lines, net>>

\* An iteration of the loop over the lines of a variable block.
VariableLine ==
    /\ pc = "variable"
    /\ i < Len(cleaned_lines)
    /\ line_at(i).kind # "close"
    /\ block' = IF search_braces(line_at(i))
                THEN [block EXCEPT !.items = line_at(i).items]
                ELSE block
    /\ i' = i + 1
    /\ UNCHANGED <<lex_vars, pc, error, gen_vars, file_contents, cleaned_lines, variables, cpds,
                   output_lines, net>>

\* The loop ends at a "}" line or at the end of the text: the closing line is
\* skipped and the variable appended.
VariableEnd ==
    /\ pc = "variable"
    /\ ~(i < Len(cleaned_lines) /\ line_at(i).kind # "close")
    /\ i' = i + 1
    /\ variables' = Append(variables, <<block.name, block.items>>)
    /\ pc' = "outer"
    /\ UNCHANGED <<lex_vars, error, gen_vars, file_contents, cleaned_lines, cpds, block,
                   output_lines, net>>

\* A probability header: child, parents and table are set, the block is entered.
EnterProbability ==
    /\ pc = "outer"
    /\ i < Len(cleaned_lines)
    /\ ~starts_with(line_at(i), "network")
    /\ ~starts_with(line_at(i), "variable")
    /\ starts_with(line_at(i), "probability")
    /\ match_probability(line_at(i))
    /\ block' = [name |-> line_at(i).name, items |-> line_at(i).items, table |-> <<>>]
    /\ i' = i + 1
    /\ pc' = "probability"
    /\ UNCHANGED <<lex_vars, error, gen_vars, file_contents, cleaned_lines, variables, cpds,
                   output_lines, net>>

\* What an iteration of the loop over a probability block makes of line_inside:
\* the new table, or the exception float() raised.
probability_line(table, line_inside) ==
    IF starts_with(line_inside, "table")
    THEN IF search_table(line_inside)
         THEN LET probs == floats_of(line_inside.values)
              IN  IF probs.ok
                  THEN Returned([k \in DOMAIN probs.value |-> FloatEntry(probs.value[k])])
                  ELSE probs
         ELSE Returned(table)
    ELSE IF match_entry(line_inside)
         THEN LET probs == floats_of(line_inside.values)
              IN  IF probs.ok
                  THEN Returned(Append(table, RowEntry(line_inside.items, probs.value)))
                  ELSE probs
         ELSE Returned(table)

\* An iteration of the loop over the lines of a probability block.
ProbabilityLine ==
    /\ pc = "probability"
    /\ i < Len(cleaned_lines)
    /\ line_at(i).kind # "close"
    /\ LET got == probability_line(block.table, line_at(i))
       IN  IF got.ok
           THEN /\ block' = [block EXCEPT !.table = got.value]
                /\ i' = i + 1
                /\ UNCHANGED <<lex_vars, pc, error>>
           ELSE /\ pc' = "raised"
                /\ error' = "parse_bif: " \o got.error
                /\ UNCHANGED <<lex_vars, block, i>>
    /\ UNCHANGED <<lex_vars, gen_vars, file_contents, cleaned_lines, variables, cpds,
                   output_lines, net>>

\* The loop ends: the closing line is skipped and the cpd appended.
ProbabilityEnd ==
    /\ pc = "probability"
    /\ ~(i < Len(cleaned_lines) /\ line_at(i).kind # "close")
    /\ i' = i + 1
    /\ cpds' = Append(cpds, [child |-> block.name, parents |-> block.items,
                             table |-> block.table])
    /\ pc' = "outer"
    /\ UNCHANGED <<lex_vars, error, gen_vars, file_contents, cleaned_lines, variables, block,
                   output_lines, net>>

\* The outer loop ends: return variables, cpds
ParseReturn ==
    /\ pc = "outer"
    /\ ~(i < Len(cleaned_lines))
    /\ pc' = "parsed"
    /\ UNCHANGED <<lex_vars, error, gen_vars, bif_vars, output_lines, net>>

\* target_output = convert_to_target_format(variables, cpds)
ConvertToTargetFormat ==
    /\ pc = "parsed"
    /\ LET got == convert_to_target_format(variables, cpds)
       IN  /\ output_lines' = got.value
           /\ error' = IF got.ok THEN "" ELSE "convert_to_target_format: " \o got.error
           /\ pc' = IF got.ok THEN "printed" ELSE "raised"
    /\ UNCHANGED <<lex_vars, gen_vars, bif_vars, net>>

NextBif ==
    \/ CleanLines
    \/ SkipLine
    \/ EnterVariable
    \/ VariableLine
    \/ VariableEnd
    \/ EnterProbability
    \/ ProbabilityLine
    \/ ProbabilityEnd
    \/ ParseReturn
    \/ ConvertToTargetFormat
    \/ GetBayesianNet

SpecBif == InitBif /\ [][NextBif]_vars

\* Texts for the question whether the scan ends: every text of MaxLines lines
\* made of block headers, a malformed header, table lines with and without a
\* non-numeric value, and the closing line, so with blocks left open.
ScanLines ==
    { VariableHeader("A"), ProbabilityHeader("A", <<>>), MalformedProbability,
      TableLine(<<P(4000), P(6000)>>), TableLine(<<P(4000), NotANumber>>), CloseLine }

ScanTexts == [1..MaxLines -> ScanLines]

InitScan ==
    /\ pc = "parse"
    /\ error = ""
    /\ NoGen
    /\ file_contents \in ScanTexts
    /\ cleaned_lines = <<>>
    /\ i = 0
    /\ variables = <<>>
    /\ cpds = <<>>
    /\ block = NoBlock
    /\ output_lines = <<>>
    /\ net = reader_start
    /\ NoLex

\* bif_converter.main as it runs: one thread, which takes its next step
\* whenever it has one.
SpecScanFair == InitScan /\ [][NextBif]_vars /\ WF_vars(NextBif)

NextGen ==
    \/ GenerateNetwork
    \/ TopologicalSort
    \/ ReassignNames
    \/ GenerateCpts
    \/ OutputNetwork
    \/ GetBayesianNet

SpecGen == InitGen /\ [][NextGen]_vars

\* --------------------------------------------------------- the whole programs
Init == InitGen \/ InitBif

Next ==
    \/ GenerateNetwork
    \/ TopologicalSort
    \/ ReassignNames
    \/ GenerateCpts
    \/ OutputNetwork
    \/ CleanLines
    \/ SkipLine
    \/ EnterVariable
    \/ VariableLine
    \/ VariableEnd
    \/ EnterProbability
    \/ ProbabilityLine
    \/ ProbabilityEnd
    \/ ParseReturn
    \/ ConvertToTargetFormat
    \/ GetBayesianNet

Spec == Init /\ [][Next]_vars

\* ------------------------------------------------- topological_sort on any graph
\* The lists of at most n members of S.
lists_up_to(S, n) == UNION {[1..m -> S] : m \in 0..n}

\* The parent maps of the names `todo`, parents drawn from `names`, whose lists
\* hold at most `budget` parents in all.
RECURSIVE parent_maps(_, _, _)
parent_maps(todo, names, budget) ==
    IF todo = <<>> THEN {<<>>}
    ELSE UNION { { [v \in DOMAIN m \cup {Head(todo)} |->
                        IF v = Head(todo) THEN ps ELSE m[v]]
                   : m \in parent_maps(Tail(todo), names, budget - Len(ps)) }
                 : ps \in lists_up_to(names, budget) }

InitSort ==
    /\ pc = "generated"
    /\ error = ""
    /\ \E n \in 1..MaxSortVars :
          /\ args = [NoArgs EXCEPT !.num_vars = n]
          /\ original_parents \in parent_maps(var_names(n), Range(var_names(n)), MaxEdges)
    /\ sorted_orig = <<>>
    /\ renamed = NoNames
    /\ cpts = NoCpts
    /\ NoBif
    /\ output_lines = <<>>
    /\ net = reader_start
    /\ NoLex

NextSort == TopologicalSort

SpecSort == InitSort /\ [][NextSort]_vars

\* ------------------------------------------------------- the enumerators alone
EnumNames == {"A", "B", "C"}

\* The domain of `name` with n labels: A1, A2, ...
labels(name, n) == [k \in 1..n |-> name \o ToString(k)]

InitEnum ==
    /\ pc = "enumerate"
    /\ error = ""
    /\ NoGen
    /\ NoBif
    /\ output_lines = <<>>
    /\ net = reader_start
    /\ \E sizes \in [EnumNames -> 0..MaxDomain], parents \in lists_up_to(EnumNames, MaxParents) :
          lex_in = [parents |-> parents,
                    var_domains |-> [name \in EnumNames |-> labels(name, sizes[name])]]
    /\ lex_out = NoLexOut

\* Both enumerators are called with the same arguments.
Enumerate ==
    /\ pc = "enumerate"
    /\ lex_out' = [generator |-> lexicographic_assignments(lex_in.parents, lex_in.var_domains),
                   converter |-> generate_lexicographic_order(lex_in.parents, lex_in.var_domains)]
    /\ pc' = "enumerated"
    /\ UNCHANGED <<error, gen_vars, bif_vars, output_lines, net, lex_in>>

NextEnum == Enumerate

SpecEnum == InitEnum /\ [][NextEnum]_vars

\* ================================================================= the claims
\* The position of x in the list s.
index_of(s, x) == CHOOSE k \in DOMAIN s : s[k] = x

\* Every parent's numeric suffix is below (above) its child's.
edges_ascend(parents) ==
    \A v \in DOMAIN parents : \A k \in DOMAIN parents[v] :
        suffix(parents[v][k]) < suffix(v)
edges_descend(parents) ==
    \A v \in DOMAIN parents : \A k \in DOMAIN parents[v] :
        suffix(parents[v][k]) > suffix(v)

\* C1: for every generated topology, after topological_sort and reassign_names
\* every variable of X1..Xn has its renamed parent list, and every parent in it
\* has a numeric suffix strictly below the variable's.
C1_RenamedParentsLower ==
    pc \in {"renamed", "tables", "printed", "read"} =>
        /\ DOMAIN renamed.new_parents = Range(var_names(args.num_vars))
        /\ \A v \in DOMAIN renamed.new_parents :
              Len(renamed.new_parents[v]) = Len(original_parents[
                  CHOOSE old \in DOMAIN renamed.renaming : renamed.renaming[old] = v])
        /\ edges_ascend(renamed.new_parents)

\* C1's case: an inverse tree, whose arcs run against the creation order, is
\* renamed, X1 getting another name and some variable keeping two parents.
C1_Witness ==
    /\ pc = "renamed"
    /\ args.morphology = "inverse_tree"
    /\ renamed.renaming["X1"] # "X1"
    /\ \E v \in DOMAIN renamed.new_parents : Len(renamed.new_parents[v]) >= 2

\* The names with a path of parent arcs to v, found by closing v's parents
\* under "parent of"; names that are no keys of the map have no parents.
RECURSIVE ancestors_from(_, _)
ancestors_from(found, var_parents) ==
    LET more == found \cup UNION { Range(var_parents[u]) : u \in found \cap DOMAIN var_parents }
    IN  IF more = found THEN found ELSE ancestors_from(more, var_parents)
ancestors(v, var_parents) == ancestors_from(Range(var_parents[v]), var_parents)
has_cycle(var_parents) == \E v \in DOMAIN var_parents : v \in ancestors(v, var_parents)

\* C2: on any parent map over var_names, topological_sort raises "not a DAG"
\* when the graph has a cycle, never returns an order of another length than
\* var_names, and on an acyclic graph returns a permutation of var_names with
\* every parent before each of its children.
C2_SortRejectsCycles ==
    pc \in {"sorted", "raised"} =>
        LET names == var_names(args.num_vars)
        IN  /\ has_cycle(original_parents) =>
                  pc = "raised" /\ error = "topological_sort: ValueError(Graph is not a DAG!)"
            /\ pc = "sorted" => Len(sorted_orig) = Len(names)
            /\ ~has_cycle(original_parents) =>
                  /\ pc = "sorted"
                  /\ Range(sorted_orig) = Range(names)
                  /\ \A a, b \in DOMAIN sorted_orig : sorted_orig[a] = sorted_orig[b] => a = b
                  /\ \A v \in Range(names) : \A k \in DOMAIN original_parents[v] :
                        index_of(sorted_orig, original_parents[v][k]) < index_of(sorted_orig, v)

\* C2's case: the two-cycle {X1:[X2], X2:[X1]} has been handed to the sort,
\* which raised.
C2_Witness ==
    /\ pc = "raised"
    /\ args.num_vars = 2
    /\ original_parents["X1"] = <<"X2">>
    /\ original_parents["X2"] = <<"X1">>

\* C3 as stated: in the placeholder topology of each of the four strategies
\* every parent has a lower index than its child.
C3_AllEdgesAscend ==
    pc # "start" => edges_ascend(original_parents)

\* C3 amended: chain, full_tree and random_dag only make arcs from a lower to a
\* higher placeholder index; inverse_tree only makes arcs from a higher to a
\* lower one.
C3_EdgesAscendOrInverse ==
    pc # "start" =>
        IF args.morphology = "inverse_tree"
        THEN edges_descend(original_parents)
        ELSE edges_ascend(original_parents)

\* C3's case: an inverse tree whose sink X1 has two parents has been generated.
C3_Witness ==
    /\ pc = "generated"
    /\ args.morphology = "inverse_tree"
    /\ Len(original_parents["X1"]) >= 2

\* The product of the sizes of the domains of parents[from..].
RECURSIVE domain_product(_, _, _)
domain_product(parents, var_domains, from) ==
    IF from > Len(parents) THEN 1
    ELSE Len(var_domains[parents[from]]) * domain_product(parents, var_domains, from + 1)

\* Row-major order by index arithmetic: in row r, parent j takes the value at
\* ((r - 1) div (product of the later parents' sizes)) mod its own size.
row_major(parents, var_domains) ==
    [r \in 1..domain_product(parents, var_domains, 1) |->
        [j \in DOMAIN parents |->
            var_domains[parents[j]][
                (((r - 1) \div domain_product(parents, var_domains, j + 1))
                    % Len(var_domains[parents[j]])) + 1]]]

\* The assignments: one value of its domain for each parent.
assignments_of(parents, var_domains) ==
    {t \in [DOMAIN parents -> UNION {Range(var_domains[v]) : v \in DOMAIN var_domains}] :
        \A j \in DOMAIN parents : t[j] \in Range(var_domains[parents[j]])}

\* C4: for the same parents and domains both enumerators return the same
\* sequence, which is the row-major order (last parent fastest) and holds every
\* assignment of the Cartesian product exactly once.
C4_EnumeratorsAgree ==
    pc = "enumerated" =>
        /\ lex_out.converter = lex_out.generator
        /\ lex_out.generator = row_major(lex_in.parents, lex_in.var_domains)
        /\ \A t \in assignments_of(lex_in.parents, lex_in.var_domains) :
              Cardinality({r \in DOMAIN lex_out.converter : lex_out.converter[r] = t}) = 1

\* C4's case: parents [A, B] with two and three values give the six rows of
\* the spec's example.
C4_Witness ==
    /\ pc = "enumerated"
    /\ lex_in.parents = <<"A", "B">>
    /\ lex_in.var_domains["A"] = <<"A1", "A2">>
    /\ lex_in.var_domains["B"] = <<"B1", "B2", "B3">>
    /\ lex_out.generator = << <<"A1", "B1">>, <<"A1", "B2">>, <<"A1", "B3">>,
                              <<"A2", "B1">>, <<"A2", "B2">>, <<"A2", "B3">> >>

\* ------------------------------------------------ the printed exchange format
\* Whether the run is network_generator's (else it is bif_converter's).
is_generated == args.morphology # ""

\* The variables and the tables the serializer was given, in its order.
variable_count == IF is_generated THEN Len(renamed.new_names) ELSE Len(variables)
table_count    == IF is_generated THEN Len(renamed.new_names) ELSE Len(cpds)
table_child(k) == IF is_generated THEN renamed.new_names[k] ELSE cpds[k].child
table_parents(k) ==
    IF is_generated THEN renamed.new_parents[renamed.new_names[k]] ELSE cpds[k].parents
declared_domains == IF is_generated THEN cpts.var_domains ELSE bif_var_domains(variables)

\* 1 for an empty parent list, else the product of the parents' domain sizes.
expected_rows(k) ==
    IF table_parents(k) = <<>> THEN 1
    ELSE domain_product(table_parents(k), declared_domains, 1)

\* The number of lines of the first k tables, each a blank line, a header and
\* its expected rows.
RECURSIVE lines_of_tables(_)
lines_of_tables(k) == IF k = 0 THEN 0 ELSE 2 + expected_rows(k) + lines_of_tables(k - 1)

\* Where the header of table k stands if every table before it has its expected rows.
header_line_at(k) == variable_count + 2 + lines_of_tables(k - 1) + 2

\* The line at position n of the output, if there is one.
line_or_none(n) ==
    IF n \in DOMAIN output_lines THEN output_lines[n] ELSE <<[id |-> "(no such line)"]>>

\* C5: in the output of both serializers every table is a blank line, its
\* header and then exactly 1 row line when it has no parents, else as many row
\* lines as the product of its parents' domain sizes: the output has no other
\* lines, and each header stands where these counts put it.
C5_RowCount ==
    pc \in {"printed", "read"} =>
        /\ Len(output_lines) = variable_count + 2 + lines_of_tables(table_count)
        /\ \A k \in 1..table_count :
              /\ line_or_none(header_line_at(k) - 1) = <<>>
              /\ line_or_none(header_line_at(k)) =
                    <<word(table_child(k))>>
                    \o [m \in DOMAIN table_parents(k) |-> word(table_parents(k)[m])]

\* C5's case: the converter has printed a table with two parents and six
\* rows, and a table that lacks the entry of one of its assignments.
C5_Witness ==
    /\ pc = "printed"
    /\ ~is_generated
    /\ \E k \in 1..table_count : Len(table_parents(k)) = 2 /\ expected_rows(k) = 6
    /\ \E k \in 1..table_count :
          table_parents(k) # <<>> /\ 0 < Len(cpds[k].table) /\ Len(cpds[k].table) < expected_rows(k)

\* C6: parse_bif never raises, whatever the text.
C6_ParseNeverRaises ==
    ~(pc = "raised" /\ error = "parse_bif: ValueError")

\* Whether the parsed network has one probability block for each declared
\* variable, each variable declared once.
one_table_per_variable ==
    /\ Len(cpds) = Len(variables)
    /\ \A a, b \in DOMAIN variables : variables[a][1] = variables[b][1] => a = b
    /\ \A a, b \in DOMAIN cpds : cpds[a].child = cpds[b].child => a = b
    /\ {cpds[k].child : k \in DOMAIN cpds} = {variables[k][1] : k \in DOMAIN variables}

\* The probability headers of the cleaned text, in their order.
probability_headers == SelectSeq(cleaned_lines, LAMBDA l : l.kind = "probability")

\* The child that the header of table k names.
printed_child(k) ==
    IF line_or_none(header_line_at(k)) = <<>> THEN [id |-> "(empty line)"]
    ELSE line_or_none(header_line_at(k))[1]

\* C7 as stated: the k-th table header names the k-th variable as its child,
\* in the output of both serializers, whatever the order of the probability
\* blocks of the input.
C7_TablesInVariableOrder ==
    pc \in {"printed", "read"} =>
        IF is_generated
        THEN \A k \in 1..table_count : printed_child(k) = word(renamed.new_names[k])
        ELSE one_table_per_variable =>
                \A k \in 1..table_count : printed_child(k) = word(variables[k][1])

\* C7 amended: convert_to_target_format prints one table for each probability
\* block, in the order of the blocks: the k-th header names the child of the
\* k-th block (of the k-th probability header of the text, when each header
\* opened a block); output_network prints table k for the k-th variable.
C7_TablesInBlockOrder ==
    pc \in {"printed", "read"} =>
        /\ line_or_none(variable_count + 2) = <<count_word(table_count)>>
        /\ IF is_generated
           THEN \A k \in 1..table_count : printed_child(k) = word(var_name(k))
           ELSE /\ \A k \in 1..table_count : printed_child(k) = word(cpds[k].child)
                /\ Len(probability_headers) = Len(cpds) =>
                      \A k \in 1..table_count :
                          printed_child(k) = word(probability_headers[k].name)

\* C7's case: a network with one block for each variable, the block of B
\* written before the block of A, has been printed with B's table first.
C7_Witness ==
    /\ pc = "printed"
    /\ ~is_generated
    /\ one_table_per_variable
    /\ Len(variables) = 3
    /\ variables[1][1] = "A"
    /\ cpds[1].child = "B"
    /\ line_or_none(header_line_at(1)) = <<word("B"), word("A")>>

\* The float that f"{p:.4f}" writes for p, as float() reads it back.
written_value(p) == py_float(format_4f(p))

\* The rows output_network wrote for a variable, as values.
written_rows(var) ==
    IF renamed.new_parents[var] = <<>>
    THEN << [k \in DOMAIN cpts.cpts[var] |-> written_value(cpts.cpts[var][k])] >>
    ELSE [r \in DOMAIN cpts.cpts[var] |->
            [k \in DOMAIN cpts.cpts[var][r][2] |-> written_value(cpts.cpts[var][r][2][k])]]

\* C8: get_bayesian_net, fed the lines the generator printed, returns the same
\* variables in the same order with the same domains, and for every table the
\* rows that were written, no more and no fewer.
C8_RoundTrip ==
    (pc = "read" /\ is_generated) =>
        /\ net.error = ""
        /\ net.order = [k \in DOMAIN renamed.new_names |-> word(renamed.new_names[k])]
        /\ \A var \in Range(renamed.new_names) :
              /\ net.domain[word(var)] = cpts.var_domains[var]
              /\ net.cpt[word(var)] = written_rows(var)

\* The header of the variable block being read: the first variable header
\* before line i with no "}" line between it and line i (0-based).
block_start ==
    CHOOSE h \in 0..(i - 1) :
        /\ cleaned_lines[h + 1].kind = "variable"
        /\ \A m \in (h + 1)..(i - 1) : cleaned_lines[m + 1].kind # "close"
        /\ \A g \in 0..(h - 1) :
              ~(/\ cleaned_lines[g + 1].kind = "variable"
                /\ \A m \in (g + 1)..(i - 1) : cleaned_lines[m + 1].kind # "close")

\* The lines of that block, header and terminator excluded, that hold a
\* brace-delimited list (1-based positions).
block_domain_lines ==
    {m \in (block_start + 2)..i : m <= Len(cleaned_lines) /\ cleaned_lines[m].kind = "domain"}

first_domain ==
    IF block_domain_lines = {} THEN <<>>
    ELSE cleaned_lines[CHOOSE m \in block_domain_lines :
                          \A n \in block_domain_lines : m <= n].items
last_domain ==
    IF block_domain_lines = {} THEN <<>>
    ELSE cleaned_lines[CHOOSE m \in block_domain_lines :
                          \A n \in block_domain_lines : n <= m].items

\* C9 as stated: when a variable block ends, the variable is appended with
\* the list of the first line of the block that holds one.
C9_FirstDomainLineWins ==
    [][(pc = "variable" /\ pc' = "outer") =>
          variables' = Append(variables, <<cleaned_lines[block_start + 1].name, first_domain>>)]_vars

\* C9 amended: when a variable block ends, the variable is appended with the
\* list of the last line of the block that holds one (the empty list if none
\* does): every such line replaces the domain.
C9_LastDomainLineWins ==
    [][(pc = "variable" /\ pc' = "outer") =>
          variables' = Append(variables, <<cleaned_lines[block_start + 1].name, last_domain>>)]_vars

\* C9's case: the block of A held the list a, b and then the list c, and A
\* was appended with the domain c.
C9_Witness ==
    /\ pc = "outer"
    /\ i >= 4
    /\ i <= Len(cleaned_lines)
    /\ cleaned_lines[i - 3] = VariableHeader("A")
    /\ cleaned_lines[i - 2] = DomainLine(<<"a", "b">>)
    /\ cleaned_lines[i - 1] = DomainLine(<<"c">>)
    /\ cleaned_lines[i] = CloseLine
    /\ variables # <<>>
    /\ variables[Len(variables)] = <<"A", <<"c">>>>

\* The variables that have p as their parent.
children_of(p, parents) == {v \in DOMAIN parents : p \in Range(parents[v])}

\* C10: in the topology generate_tree returns no node has more than
\* `branching` children.
C10_AtMostBranchingChildren ==
    (pc # "start" /\ args.morphology = "full_tree") =>
        \A p \in DOMAIN original_parents :
            Cardinality(children_of(p, original_parents)) <= args.branching

\* The i-th assignment of the parents of table k, in row-major order.
assignment_at(k, r) == row_major(table_parents(k), declared_domains)[r]

\* The entries of the table of block k recorded for an assignment, as
\* positions in the order of the block's rows.
entries_for(k, assignment) ==
    {e \in DOMAIN cpds[k].table : cpds[k].table[e].assignment = assignment}

\* A probability list as the words of a row line.
row_words(probs) == [m \in DOMAIN probs |-> format_repr(probs[m])]

\* The r-th row line printed under the header of table k.
printed_row(k, r) == line_or_none(header_line_at(k) + r)

\* C11 as stated: in a conditional table of convert_to_target_format's output
\* the i-th row line is the probability list recorded for the i-th
\* assignment whatever the order of the block's rows, so it is the list of
\* every row the block holds for that assignment; it is an empty line when
\* the block holds none.
C11_RowsIndependentOfOrder ==
    (pc \in {"printed", "read"} /\ ~is_generated) =>
        \A k \in 1..table_count :
            table_parents(k) # <<>> =>
                \A r \in 1..expected_rows(k) :
                    IF entries_for(k, assignment_at(k, r)) = {}
                    THEN printed_row(k, r) = <<>>
                    ELSE \A e \in entries_for(k, assignment_at(k, r)) :
                            printed_row(k, r) = row_words(cpds[k].table[e].probs)

\* C11 amended: the i-th row line is the probability list of the last row of
\* the block recorded for the i-th assignment in row-major order, wherever
\* that row stands in the block; it is an empty line when the block holds no
\* row for that assignment, the other rows keeping their positions.
C11_RowsInEnumeratorOrder ==
    (pc \in {"printed", "read"} /\ ~is_generated) =>
        \A k \in 1..table_count :
            table_parents(k) # <<>> =>
                \A r \in 1..expected_rows(k) :
                    LET hits == entries_for(k, assignment_at(k, r))
                    IN  IF hits = {}
                        THEN printed_row(k, r) = <<>>
                        ELSE printed_row(k, r) =
                                row_words(cpds[k].table[CHOOSE e \in hits :
                                                           \A m \in hits : m <= e].probs)

\* C11's case: the block of C held its six rows in reverse order and they
\* were printed in row-major order, and the block of B, which held no row for
\* a, was printed with an empty first line and the row of b as its second.
C11_Witness ==
    /\ pc = "printed"
    /\ ~is_generated
    /\ \E k \in 1..table_count :
          /\ cpds[k].child = "C"
          /\ cpds[k].parents = <<"A", "B">>
          /\ Len(cpds[k].table) = 6
          /\ cpds[k].table[1].assignment = <<"b", "z">>
          /\ expected_rows(k) = 6
          /\ printed_row(k, 1) = <<P(100), P(9900)>>
          /\ printed_row(k, 6) = <<P(600), P(9400)>>
    /\ \E k \in 1..table_count :
          /\ cpds[k].child = "B"
          /\ Len(cpds[k].table) = 1
          /\ expected_rows(k) = 2
          /\ printed_row(k, 1) = <<>>
          /\ printed_row(k, 2) = <<P(3000), P(3000), P(4000)>>

\* The positions of parse_bif: its outer loop and its two block loops.
parse_loops == {"outer", "variable", "probability"}

\* C12 as stated: parse_bif terminates on every text, its scan reaching the
\* end of the input: once started it returns with the line index at or past
\* the last cleaned line.
C12_ScanReachesEnd ==
    (pc = "parse") ~> (pc = "parsed" /\ i >= Len(cleaned_lines))

\* C12, the part that holds: every completed iteration of the outer loop and
\* of both block loops moves the line index forward by one.
C12_IndexIncreases ==
    [][(pc \in parse_loops /\ pc' \in parse_loops) => i' = i + 1]_vars

\* C12, the part that holds: parse_bif leaves its loops on every text, by
\* returning or by raising.
C12_ParseEnds ==
    (pc = "parse") ~> (pc \notin parse_loops \cup {"parse"})

\* C12, the part that holds: inside the loops the line index never passes
\* the end of the text by more than the one skipped closing line, and the
\* parse always has a next step, so the loops end after at most
\* Len(cleaned_lines) + 1 iterations, by returning or by raising.
C12_LoopsBounded ==
    pc \in parse_loops =>
        /\ i <= Len(cleaned_lines) + 1
        /\ pc # "outer" => i <= Len(cleaned_lines)
        /\ ENABLED NextBif

====
